---- MODULE Spec2Model ----
(***************************************************************************)
(* Model of the VMRS parts classification pipeline:                        *)
(*   - ClaudeClient.call_claude          (src/utils/claude_api.py)         *)
(*   - ClaudeClient.validate_json_response                                 *)
(*   - SystemClassifier.classify_parts   (src/agents/agent_1_classifier.py)*)
(*   - BatchProcessor.process_with_progress, create_batches,               *)
(*     group_by_system                   (src/utils/batch_processor.py)    *)
(*                                                                         *)
(* The specifications share the variables:                                 *)
(*   ClientSpec    one call_claude invocation, any max_retries             *)
(*   FairClientSpec  ClientSpec with the loop's steps weakly fair          *)
(*   ClassifySpec  one classify_parts invocation on top of call_claude     *)
(*   BatchSpec     one process_with_progress / create_batches /            *)
(*                 group_by_system invocation                              *)
(*   MainSpec      one run of main                                         *)
(*   ReferenceSpec operations on the loaded catalog and parts              *)
(*   ReplaySpec    classify_parts called twice on one SystemClassifier     *)
(*   StageSpec     one part through the five stages                        *)
(*   ValidateSpec  one OutputValidator.validate_agent_output call          *)
(*   RulesSpec     one RulesLoader call on a rules directory               *)
(*   ProgressSpec  track_progress followed by update_progress calls        *)
(*   ParseSpec     one validate_json_response call on a text               *)
(***************************************************************************)
EXTENDS Integers, Sequences, FiniteSets, TLC

(***************************************************************************)
(* Bounds of the model.                                                    *)
(***************************************************************************)
MaxRetries == 3      \* call_claude is explored for max_retries in 0..MaxRetries
MaxParts == 2        \* longest Oracle response (entries) in ClassifySpec
MaxItems == 3        \* longest item list handed to process_with_progress
MaxBatchSize == 2    \* largest batch_size handed to process_with_progress
MaxStageParts == 11  \* longest part list batched with a stage's configured size
MaxCalls == 3        \* longest sequence of operations on the reference data
MaxUpdates == 2      \* update_progress calls on one progress dictionary
MaxPieces == 4       \* longest content handed to validate_json_response, in pieces

(***************************************************************************)
(* Program constants.                                                      *)
(***************************************************************************)
DefaultMaxRetries == 3   \* call_claude(max_retries=3), config.get('max_retries', 3)
InitialWait == 5         \* wait_time = (2 ** attempt) * 5
BackoffMultiplier == 2   \* wait_time = (2 ** attempt) * 5

VARIABLES
    \* ---- ClaudeClient.call_claude ----
    clientPc,      \* "idle" | "calling" | "returned" | "raised"
    max_retries,   \* the max_retries argument of the running call
    attempt,       \* the loop variable of `for attempt in range(max_retries)`
    attemptLog,    \* outcome of every Oracle attempt made, in order
    waitLog,       \* argument of every time.sleep made, in order
    trace,         \* interleaving of attempts and sleeps: <<"attempt", i>> / <<"sleep", i>>
    clientResult,  \* content returned by call_claude, or NoContent
    clientError,   \* the exception call_claude raised, or "none"
    calls          \* number of call_claude invocations made

clientVars == <<clientPc, max_retries, attempt, attemptLog, waitLog, trace,
                clientResult, clientError, calls>>

VARIABLES
    \* ---- SystemClassifier.classify_parts ----
    parts,         \* the `parts` argument: list of [part_code, part_name]
    cpc,           \* "idle" | "calling" | "returned" | "raised"
    prompt,        \* the prompt handed to call_claude, or NoPrompt
    parsed,        \* parsed_response once validate_json_response returned
    grouped,       \* the returned grouped_parts (function system code -> group)
    classifyError  \* why classify_parts raised, or "none"

classifyVars == <<parts, cpc, prompt, parsed, grouped, classifyError>>

VARIABLES
    \* ---- BatchProcessor.process_with_progress / group_by_system ----
    bpc,           \* "idle" | "running" | "returned" | "grouped"
    items,         \* the `items` argument
    batch_size,    \* the `batch_size` argument
    batches,       \* what the loop iterates over: the items, or list(create_batches(..))
    bidx,          \* number of loop iterations completed
    batchLog,      \* outcome of process_func for every iteration made, in order
    results,       \* the `results` list
    gbsIn,         \* the `parts` argument of group_by_system
    gbsOut         \* the `grouped` dictionary group_by_system returned

batchVars == <<bpc, items, batch_size, batches, bidx, batchLog, results, gbsIn, gbsOut>>

VARIABLES
    \* ---- main ----
    mainPc,        \* "idle" | "load" | "client" | "phases" | "except" | "returned"
    args,          \* parsed command line: [input, vmrs_catalog, dry_run]
    environ,       \* os.getenv("ANTHROPIC_API_KEY")
    loaded,        \* <<len(parts_catalog), len(customer_catalog)>> once both are loaded
    claude_client, \* api_key of the constructed ClaudeClient, or NoClient
    progress,      \* what BatchProcessor.track_progress returned, or NoProgress
    phases,        \* the phases after initialization that main entered, in order
    outputs,       \* the output files main wrote
    exit_code,     \* <<>> until main returns, then <<0>> or <<1>>
    mainError      \* the exception caught by `except Exception`, or "none"

mainVars == <<mainPc, args, environ, loaded, claude_client, progress, phases,
              outputs, exit_code, mainError>>

VARIABLES
    \* ---- reference data and the operations that receive it ----
    refPc,             \* "idle" | "loaded"
    customer_catalog,  \* the customer catalog: list of catalog entries
    input_parts,       \* the input part list
    refLog             \* <<operation, result>> of every operation called, in order

refVars == <<refPc, customer_catalog, input_parts, refLog>>

VARIABLES
    \* ---- one part's ClassificationRecord on its way through stages 1 to 5 ----
    rec            \* [state, status, routing, system_code, vmrs_code, confidence,
                   \*  stage_history]

stageVars == <<rec>>

VARIABLES
    \* ---- classify_parts called a second time on the same SystemClassifier ----
    run,           \* number of classify_parts calls started
    firstRun       \* what the first call was given and what it produced

replayVars == <<run, firstRun>>

VARIABLES
    \* ---- one call of a function that keeps no state of its own ----
    called,        \* the call made: [op, ...arguments], or NoCall
    callOutcome    \* what the call returned or raised

callVars == <<called, callOutcome>>

VARIABLES
    \* ---- BatchProcessor.track_progress / update_progress ----
    progressDict,  \* the progress dictionary, or NoProgress before track_progress
    updates,       \* the update_progress calls made: <<stage, count, system_code>>
    progError      \* the exception the last update_progress raised, or "none"

progVars == <<progressDict, updates, progError>>

vars == <<clientVars, classifyVars, batchVars, mainVars, refVars, stageVars, replayVars,
          callVars, progVars>>

(***************************************************************************)
(* Input parts (parts_catalog.csv rows): part_code unique.                 *)
(***************************************************************************)
PartCodes == {"P1", "P2"}
PartNameOf(c) == IF c = "P1" THEN "Brake Pad Set" ELSE "Wheel Seal"
Part(c) == [part_code |-> c, part_name |-> PartNameOf(c)]

RECURSIVE DistinctSeqs(_, _)
\* every sequence of distinct elements of S, of length <= n
DistinctSeqs(S, n) ==
    IF n = 0 \/ S = {} THEN {<<>>}
    ELSE {<<>>} \cup UNION {{<<x>> \o t : t \in DistinctSeqs(S \ {x}, n - 1)} : x \in S}

PartLists == {[i \in 1..Len(cs) |-> Part(cs[i])] : cs \in DistinctSeqs(PartCodes, MaxParts)}

Min(a, b) == IF a < b THEN a ELSE b

(***************************************************************************)
(* The customer catalog (customer_vmrs_catalog.csv rows).  A vmrs_code is  *)
(* the sequence of its hyphen-separated segments: <<"13">> is "13" and     *)
(* <<"13", "040">> is "13-040".  The loader does not enforce uniqueness.   *)
(***************************************************************************)
CatalogEntry(code, name, description) ==
    [vmrs_code |-> code, system_name |-> name, description |-> description,
     is_custom |-> FALSE]

Brakes      == CatalogEntry(<<"13">>, "Brakes", "Brake System")
BrakePad    == CatalogEntry(<<"13", "040">>, "Brakes", "Disc Brake Pad Set")
BrakeDrum   == CatalogEntry(<<"13", "050">>, "Brake System", "Brake Drum")
TireEntry   == CatalogEntry(<<"17", "010">>, "Tires", "Tire Radial")

Catalogs ==
    { <<>>,
      <<Brakes, BrakePad, TireEntry>>,
      <<TireEntry, BrakeDrum, BrakePad, BrakePad>>,
      <<BrakePad, BrakeDrum>> }

\* the codes an executor can be asked about; "13-999" is in no catalog
VmrsCodes == {<<"13">>, <<"13", "040">>, <<"13", "050">>, <<"13", "999">>, <<"17", "010">>}

\* code.split('-')[0]
BaseSystemCode(code) == Head(code)
\* '-' in code
HasHyphen(code) == Len(code) > 1

\* every system code in the order sorted() gives
SortedSystemCodes == <<"13", "17">>
Sorted(S) == SelectSeq(SortedSystemCodes, LAMBDA s : s \in S)

get_system_codesMutC24(catalog) ==
    [i \in DOMAIN catalog |-> BaseSystemCode(catalog[i].vmrs_code)]
\* DataLoader.get_system_codes
get_system_codes(catalog) ==
    Sorted({BaseSystemCode(catalog[i].vmrs_code) : i \in DOMAIN catalog})

RECURSIVE validate_vmrs_codeMutC14(_, _)
validate_vmrs_codeMutC14(vmrs_code, catalog) ==
    IF catalog = <<>> THEN FALSE
    ELSE IF BaseSystemCode(Head(catalog).vmrs_code) = BaseSystemCode(vmrs_code) THEN TRUE
    ELSE validate_vmrs_codeMutC14(vmrs_code, Tail(catalog))
RECURSIVE validate_vmrs_code(_, _)
\* OutputValidator.validate_vmrs_code: the first entry with that code returns True
validate_vmrs_code(vmrs_code, catalog) ==
    IF catalog = <<>> THEN FALSE
    ELSE IF Head(catalog).vmrs_code = vmrs_code THEN TRUE
    ELSE validate_vmrs_code(vmrs_code, Tail(catalog))

(***************************************************************************)
(* What the Oracle can answer.  A JSON value is tagged with its type where *)
(* the code tests the type (confidence, vmrs_system_code).                 *)
(***************************************************************************)
SystemCodes == {"13", "17"}
JInt(n) == [kind |-> "int", val |-> n]
JFloat(n) == [kind |-> "float", val |-> n]     \* n.5
JStr(s) == [kind |-> "str", val |-> s]
JNum(s) == [kind |-> "int", val |-> s]         \* the number written s, where a string is expected
JBool(n) == [kind |-> "bool", val |-> n]       \* true (1) / false (0): a Python bool is an int

\* the system name the Oracle writes: it differs from entry to entry
SystemNameBy(c, s) ==
    IF c = "P1" THEN (IF s = "13" THEN "Brakes" ELSE "Tires")
    ELSE (IF s = "13" THEN "Brake System" ELSE "Wheels")

required_fields == {"part_code", "part_name", "vmrs_system_code", "system_name",
                    "routing", "confidence", "reasoning"}
valid_routing_values == {"EXACT_MATCH", "PATTERN_MATCH_NEEDED", "WEB_SEARCH_NEEDED"}

Entry(c, s, r, conf) ==
    [part_code |-> c, part_name |-> PartNameOf(c), vmrs_system_code |-> JStr(s),
     system_name |-> SystemNameBy(c, s), routing |-> r, confidence |-> conf,
     reasoning |-> "because"]

\* f without the field k
Without(f, k) == [x \in (DOMAIN f) \ {k} |-> f[x]]

\* entries that meet the Stage 1 schema
GoodEntries ==
    {Entry(c, s, rc[1], JInt(rc[2])) :
        c \in PartCodes, s \in SystemCodes,
        rc \in {<<"EXACT_MATCH", 100>>, <<"PATTERN_MATCH_NEEDED", 0>>,
                <<"WEB_SEARCH_NEEDED", 95>>}}

\* entries that break it in one place
BadEntries ==
    {Entry("P1", "13", "MANUAL_REVIEW", JInt(95)),
     Entry("P1", "13", "EXACT_MATCH", JInt(101)),
     Entry("P1", "13", "PATTERN_MATCH_NEEDED", JInt(0 - 1)),
     Entry("P1", "13", "WEB_SEARCH_NEEDED", JFloat(95)),
     [Entry("P1", "13", "EXACT_MATCH", JInt(95)) EXCEPT !.vmrs_system_code = JNum("13")],
     Without(Entry("P1", "13", "EXACT_MATCH", JInt(95)), "reasoning")}

\* JSON true as confidence: isinstance(True, int) holds and True == 1
OddEntries == {Entry("P2", "17", "EXACT_MATCH", JBool(1))}

Entries == GoodEntries \cup BadEntries \cup OddEntries

RECURSIVE SeqsUpTo(_, _)
\* every sequence over S of length <= n
SeqsUpTo(S, n) ==
    IF n = 0 THEN {<<>>}
    ELSE LET shorter == SeqsUpTo(S, n - 1)
         IN  shorter \cup {Append(t, x) : t \in {u \in shorter : Len(u) = n - 1}, x \in S}

\* a parsed JSON document: shape is "object" for {"classified_parts": [...]},
\* "no_key" for an object without that key, "not_list" when the key holds a
\* non-list, "array" for a top-level list; "garbage" is text that is no JSON
JsonDoc(shape, ps) == [shape |-> shape, classified_parts |-> ps]
NoDoc == JsonDoc("none", <<>>)
JsonDocs ==
    {JsonDoc("object", ps) : ps \in SeqsUpTo(Entries, MaxParts)}
    \cup {JsonDoc("no_key", <<>>), JsonDoc("not_list", <<>>), JsonDoc("array", <<>>)}

\* response.content[0].text: the document, bare or inside a markdown fence
Content(wrap, doc) == [wrap |-> wrap, body |-> doc]
NoContent == Content("none", NoDoc)
Garbage == JsonDoc("garbage", <<>>)
OneGood == JsonDoc("object", <<Entry("P1", "13", "EXACT_MATCH", JInt(100))>>)
Contents ==
    {Content("raw", d) : d \in JsonDocs}
    \cup {Content(w, d) : w \in {"json_fence", "plain_fence"}, d \in {OneGood, Garbage}}
    \cup {Content("raw", Garbage)}
ClientContents ==
    {Content("raw", OneGood), Content("raw", Garbage), Content("json_fence", OneGood)}

(***************************************************************************)
(* Oracle outcomes of one client.messages.create call: a transient network *)
(* or rate-limit error, or a fatal authentication / configuration error.   *)
(* All are subclasses of Exception.                                        *)
(***************************************************************************)
TransientError == "APIConnectionError"
RateLimitError == "RateLimitError"
FatalError == "AuthenticationError"
OracleErrors == {TransientError, RateLimitError, FatalError}
Exhausted == "Failed to call Claude API after all retries"

\* `except Exception as e` (claude_api.py:100): which raised errors the handler catches
Caught(err) == err \in OracleErrors

\* `for attempt in range(max_retries)`: the loop body runs for this attempt
InRangeMutC2(a, n) == a <= n
InRange(a, n) == a < n

\* `if attempt < max_retries - 1` (claude_api.py:103): sleep and go round again
RetryAllowedMutC4(a, n) == a < n
RetryAllowed(a, n) == a < n - 1

\* `wait_time = (2 ** attempt) * 5` (claude_api.py:105)
WaitTimeMutC3(a) == (BackoffMultiplier ^ (a + 1)) * InitialWait
WaitTime(a) == (BackoffMultiplier ^ a) * InitialWait

RECURSIVE SumSeq(_)
SumSeq(s) == IF s = <<>> THEN 0 ELSE Head(s) + SumSeq(Tail(s))

ClientInit ==
    /\ clientPc = "idle"
    /\ max_retries = 0
    /\ attempt = 0
    /\ attemptLog = <<>>
    /\ waitLog = <<>>
    /\ trace = <<>>
    /\ clientResult = NoContent
    /\ clientError = "none"
    /\ calls = 0

\* call_claude(prompt, max_retries=n): entry, before the first loop test
call_claude(n) ==
    /\ clientPc = "idle"
    /\ clientPc' = "calling"
    /\ max_retries' = n
    /\ attempt' = 0
    /\ calls' = calls + 1
    /\ UNCHANGED <<attemptLog, waitLog, trace, clientResult, clientError>>

\* One iteration of the retry loop whose Oracle call succeeds: return at once.
AttemptOk(content) ==
    /\ clientPc = "calling"
    /\ InRange(attempt, max_retries)
    /\ attemptLog' = Append(attemptLog, "ok")
    /\ trace' = Append(trace, <<"attempt", attempt>>)
    /\ clientResult' = content
    /\ clientPc' = "returned"
    /\ UNCHANGED <<max_retries, attempt, waitLog, clientError, calls>>

\* One iteration whose Oracle call raises err: the handler sleeps and continues,
\* or re-raises on the last attempt.  An error the handler does not catch
\* propagates at once.
AttemptFail(err) ==
    /\ clientPc = "calling"
    /\ InRange(attempt, max_retries)
    /\ attemptLog' = Append(attemptLog, err)
    /\ IF Caught(err) /\ RetryAllowed(attempt, max_retries)
       THEN /\ waitLog' = Append(waitLog, WaitTime(attempt))
            /\ trace' = trace \o << <<"attempt", attempt>>, <<"sleep", attempt>> >>
            /\ attempt' = attempt + 1
            /\ UNCHANGED <<clientPc, clientError>>
       ELSE /\ clientPc' = "raised"
            /\ clientError' = err
            /\ trace' = Append(trace, <<"attempt", attempt>>)
            /\ UNCHANGED <<waitLog, attempt>>
    /\ UNCHANGED <<max_retries, clientResult, calls>>

\* The loop ended without return or raise: line 112.
LoopExhausted ==
    /\ clientPc = "calling"
    /\ ~InRange(attempt, max_retries)
    /\ clientPc' = "raised"
    /\ clientError' = Exhausted
    /\ UNCHANGED <<max_retries, attempt, attemptLog, waitLog, trace, clientResult, calls>>

(***************************************************************************)
(* ClaudeClient.validate_json_response                                     *)
(***************************************************************************)
IsJson(doc) == doc.shape \notin {"garbage", "none"}
Returned(v) == [ok |-> TRUE, value |-> v, error |-> "none"]
Raised(e) == [ok |-> FALSE, value |-> NoDoc, error |-> e]

\* json.loads of the whole content; on failure json.loads of the first fenced
\* block; ValueError when there is no fence
validate_json_response(content) ==
    IF content.wrap = "raw"
    THEN IF IsJson(content.body) THEN Returned(content.body) ELSE Raised("ValueError")
    ELSE IF IsJson(content.body) THEN Returned(content.body)
         ELSE Raised("JSONDecodeError")

(***************************************************************************)
(* SystemClassifier._validate_output                                       *)
(***************************************************************************)
\* `not isinstance(confidence, int) or confidence < 0 or confidence > 100`
IsInstanceInt(conf) == conf.kind \in {"int", "bool"}
ConfidenceValidMutC8(conf) == IsInstanceInt(conf) /\ conf.val >= 0
ConfidenceValid(conf) == IsInstanceInt(conf) /\ conf.val >= 0 /\ conf.val <= 100

\* the body of `for idx, part in enumerate(classified_parts)`
PartValidMutC7(part) ==
    /\ required_fields \subseteq DOMAIN part
    /\ ConfidenceValid(part.confidence)
    /\ part.vmrs_system_code.kind = "str"
PartValid(part) ==
    /\ required_fields \subseteq DOMAIN part
    /\ part.routing \in valid_routing_values
    /\ ConfidenceValid(part.confidence)
    /\ part.vmrs_system_code.kind = "str"

_validate_outputMutC20(response) ==
    /\ response.shape \notin {"no_key", "array"}
    /\ response.shape # "not_list"
    /\ \A idx \in 1..Len(response.classified_parts) :
          PartValid(response.classified_parts[idx])
_validate_output(response) ==
    /\ response.shape \notin {"no_key", "array"}      \* 'classified_parts' in response
    /\ response.shape # "not_list"                    \* isinstance(classified_parts, list)
    /\ Len(response.classified_parts) # 0
    /\ \A idx \in 1..Len(response.classified_parts) :
          PartValid(response.classified_parts[idx])

(***************************************************************************)
(* SystemClassifier.classify_parts, step 5: group parts by system code     *)
(***************************************************************************)
NoGroups == [s \in {} |-> 0]

\* the record appended to a group's 'parts'
GroupedPart(part) ==
    [part_code |-> part.part_code, part_name |-> part.part_name,
     routing |-> part.routing, confidence |-> part.confidence,
     reasoning |-> part.reasoning]

GroupStepMutC27(g, part) ==
    LET system_code == part.vmrs_system_code.val
        g1 == [s \in (DOMAIN g) \cup {system_code} |->
                 IF s # system_code THEN g[s]
                 ELSE [system_code |-> system_code, system_name |-> part.system_name,
                       parts |-> IF s \in DOMAIN g THEN g[s].parts ELSE <<>>]]
    IN  [g1 EXCEPT ![system_code].parts = Append(@, GroupedPart(part))]
\* one iteration of `for part in classified_parts`
GroupStep(g, part) ==
    LET system_code == part.vmrs_system_code.val
        g1 == IF system_code \in DOMAIN g THEN g
              ELSE [s \in (DOMAIN g) \cup {system_code} |->
                      IF s = system_code
                      THEN [system_code |-> system_code,
                            system_name |-> part.system_name, parts |-> <<>>]
                      ELSE g[s]]
    IN  [g1 EXCEPT ![system_code].parts = Append(@, GroupedPart(part))]

RECURSIVE GroupFrom(_, _)
GroupFrom(g, ps) == IF ps = <<>> THEN g ELSE GroupFrom(GroupStep(g, Head(ps)), Tail(ps))

\* `grouped_parts = {}`: a dictionary local to the call
FreshGroupsMutC16 == firstRun.grouped
FreshGroups == NoGroups

GroupParts(classified_parts) == GroupFrom(FreshGroups, classified_parts)

(***************************************************************************)
(* SystemClassifier._build_prompt: the parts of the prompt that depend on  *)
(* the catalog and on the input: the systems reference (per system, in     *)
(* sorted order, the first system_name seen and up to three hyphenated     *)
(* example codes), one numbered line per part, and "Classify ALL n parts". *)
(***************************************************************************)
MaxExamples == 3

EntriesOfSystem(catalog, s) ==
    SelectSeq(catalog, LAMBDA e : BaseSystemCode(e.vmrs_code) = s)

ExampleCodes(catalog, s) ==
    LET hyphenated == SelectSeq(EntriesOfSystem(catalog, s), LAMBDA e : HasHyphen(e.vmrs_code))
    IN  [i \in 1..Min(MaxExamples, Len(hyphenated)) |->
           [code |-> hyphenated[i].vmrs_code, description |-> hyphenated[i].description]]

systems_reference(catalog) ==
    LET keys == get_system_codes(catalog)
    IN  [k \in 1..Len(keys) |->
           [system_code |-> keys[k],
            system_name |-> Head(EntriesOfSystem(catalog, keys[k])).system_name,
            example_codes |-> ExampleCodes(catalog, keys[k])]]

parts_text(ps) ==
    [idx \in 1..Len(ps) |->
       [idx |-> idx, part_code |-> ps[idx].part_code, part_name |-> ps[idx].part_name]]

NoPrompt == [systems_reference |-> <<>>, parts_text |-> <<>>, count |-> 0 - 1]
_build_promptMutC18(ps) ==
    [systems_reference |-> systems_reference(customer_catalog),
     parts_text |-> parts_text(SubSeq(ps, 1, Min(1, Len(ps)))),
     count |-> Len(ps)]
_build_prompt(ps) ==
    [systems_reference |-> systems_reference(customer_catalog),
     parts_text |-> parts_text(ps),
     count |-> Len(ps)]

ClassifyInit ==
    /\ parts = <<>>
    /\ cpc = "idle"
    /\ prompt = NoPrompt
    /\ parsed = NoDoc
    /\ grouped = NoGroups
    /\ classifyError = "none"

\* classify_parts(ps) up to and including the call of call_claude
ClassifyCall(ps) ==
    /\ cpc = "idle"
    /\ parts' = ps
    /\ prompt' = _build_prompt(ps)
    /\ cpc' = "calling"
    /\ call_claude(DefaultMaxRetries)
    /\ UNCHANGED <<parsed, grouped, classifyError>>

\* call_claude returned: steps 3 to 5, or the re-raise of what they raise
ClassifyFinish ==
    /\ cpc = "calling"
    /\ clientPc = "returned"
    /\ LET r == validate_json_response(clientResult)
       IN  IF ~r.ok
           THEN /\ cpc' = "raised"
                /\ classifyError' = r.error
                /\ UNCHANGED <<parsed, grouped>>
           ELSE /\ parsed' = r.value
                /\ IF ~_validate_output(r.value)
                   THEN /\ cpc' = "raised"
                        /\ classifyError' = "Response validation failed"
                        /\ UNCHANGED grouped
                   ELSE /\ cpc' = "returned"
                        /\ grouped' = GroupParts(r.value.classified_parts)
                        /\ UNCHANGED classifyError
    /\ UNCHANGED <<parts, prompt, clientVars>>

\* call_claude raised: `except Exception as e: ... raise`
ClassifyReraise ==
    /\ cpc = "calling"
    /\ clientPc = "raised"
    /\ cpc' = "raised"
    /\ classifyError' = clientError
    /\ UNCHANGED <<parts, prompt, parsed, grouped, clientVars>>

(***************************************************************************)
(* BatchProcessor.create_batches                                           *)
(***************************************************************************)
\* items[i:i + batch_size] for the 0-based index i
Slice(its, i, bs) == SubSeq(its, i + 1, Min(i + bs, Len(its)))

RECURSIVE BatchesFromMutC25(_, _, _)
BatchesFromMutC25(its, i, bs) ==
    IF i >= Len(its) THEN <<>>
    ELSE <<Slice(its, i, bs)>> \o BatchesFromMutC25(its, i + bs + 1, bs)
RECURSIVE BatchesFrom(_, _, _)
\* the batches yielded for i, i + batch_size, ... while i < len(items)
BatchesFrom(its, i, bs) ==
    IF i >= Len(its) THEN <<>>
    ELSE <<Slice(its, i, bs)>> \o BatchesFrom(its, i + bs, bs)

create_batches(its, bs) == BatchesFrom(its, 0, bs)

\* settings.py BATCH_SIZES; agent_1 is None (all parts at once) and has no entry
BATCH_SIZES == [agent_2 |-> 10, agent_3 |-> 1, agent_4 |-> 1, agent_5 |-> 10]

(***************************************************************************)
(* BatchProcessor.process_with_progress                                    *)
(*                                                                         *)
(* process_func is the caller's: it returns a list with one result per     *)
(* item, returns one result for the whole batch, or raises.  What it       *)
(* raises is a stage-local failure (call_claude out of retries) or a fatal *)
(* Oracle error; both are subclasses of Exception.                         *)
(***************************************************************************)
StageError == "All retry attempts exhausted"
ProcessErrors == {StageError, FatalError}
ProcessOutcomes == {"list", "single"} \cup ProcessErrors

ResultOf(its) == [kind |-> "result", error |-> "none", key |-> "none", of |-> its]
ErrorRecord(e, key, its) == [kind |-> "error", error |-> e, key |-> key, of |-> its]

\* `except Exception as e` (batch_processor.py:67, 77)
BatchCaughtMutC9(e) == e = FatalError
BatchCaught(e) == e \in ProcessErrors

\* what one iteration of the batch loop (batch_size != 1) adds to results
BatchResults(batch, outcome) ==
    IF outcome = "list" THEN [i \in 1..Len(batch) |-> ResultOf(<<batch[i]>>)]
    ELSE IF outcome = "single" THEN <<ResultOf(batch)>>
    ELSE <<ErrorRecord(outcome, "batch", batch)>>

ItemResultsMutC26(item, outcome) ==
    IF outcome \in {"list", "single"} THEN <<ResultOf(item)>> ELSE <<>>
\* what one iteration of the item loop (batch_size == 1) adds to results
ItemResults(item, outcome) ==
    IF outcome \in {"list", "single"} THEN <<ResultOf(item)>>
    ELSE <<ErrorRecord(outcome, "item", item)>>

(***************************************************************************)
(* BatchProcessor.group_by_system                                          *)
(***************************************************************************)
NoSystem == ""      \* part.get('primary_system') is None or empty

RECURSIVE GroupBySystemFrom(_, _)
GroupBySystemFrom(g, ps) ==
    IF ps = <<>> THEN g
    ELSE LET part == Head(ps)
             system_code == part.primary_system
         IN  IF system_code = NoSystem
             THEN GroupBySystemFrom(g, Tail(ps))                       \* continue
             ELSE IF system_code \in DOMAIN g
                  THEN GroupBySystemFrom(
                         [g EXCEPT ![system_code] = Append(@, part)], Tail(ps))
                  ELSE GroupBySystemFrom(
                         [s \in (DOMAIN g) \cup {system_code} |->
                            IF s = system_code THEN <<part>> ELSE g[s]], Tail(ps))

group_by_system(ps) == GroupBySystemFrom(NoGroups, ps)

ClassifiedPart(c, s) == [part_code |-> c, part_name |-> PartNameOf(c), primary_system |-> s]
ClassifiedLists ==
    UNION {{[i \in 1..Len(cs) |-> ClassifiedPart(cs[i], ss[i])] :
              ss \in [1..Len(cs) -> SystemCodes \cup {NoSystem}]} :
           cs \in DistinctSeqs(PartCodes, MaxParts)}

BatchInit ==
    /\ bpc = "idle"
    /\ items = <<>>
    /\ batch_size = 1
    /\ batches = <<>>
    /\ bidx = 0
    /\ batchLog = <<>>
    /\ results = <<>>
    /\ gbsIn = <<>>
    /\ gbsOut = NoGroups

\* process_with_progress(its, process_func, batch_size=bs) up to the loop
process_with_progress(its, bs) ==
    /\ bpc = "idle"
    /\ bpc' = "running"
    /\ items' = its
    /\ batch_size' = bs
    /\ batches' = IF bs = 1 THEN [i \in 1..Len(its) |-> <<its[i]>>]
                  ELSE create_batches(its, bs)
    /\ bidx' = 0
    /\ results' = <<>>
    /\ UNCHANGED <<batchLog, gbsIn, gbsOut>>

\* list(BatchProcessor.create_batches(its, bs)), whole
CreateBatches(its, bs) ==
    /\ bpc = "idle"
    /\ bpc' = "batched"
    /\ items' = its
    /\ batch_size' = bs
    /\ batches' = create_batches(its, bs)
    /\ UNCHANGED <<bidx, batchLog, results, gbsIn, gbsOut>>

\* one iteration of the loop: process_func(batch) returns or raises
ProcessBatch(outcome) ==
    /\ bpc = "running"
    /\ bidx < Len(batches)
    /\ batchLog' = Append(batchLog, outcome)
    /\ IF outcome \in ProcessErrors /\ ~BatchCaught(outcome)
       THEN /\ bpc' = "raised"
            /\ UNCHANGED <<results, bidx>>
       ELSE /\ results' = results \o
                 (IF batch_size = 1 THEN ItemResults(batches[bidx + 1], outcome)
                  ELSE BatchResults(batches[bidx + 1], outcome))
            /\ bidx' = bidx + 1
            /\ UNCHANGED bpc
    /\ UNCHANGED <<items, batch_size, batches, gbsIn, gbsOut>>

\* `return results`
ProcessReturn ==
    /\ bpc = "running"
    /\ bidx = Len(batches)
    /\ bpc' = "returned"
    /\ UNCHANGED <<items, batch_size, batches, bidx, batchLog, results, gbsIn, gbsOut>>

\* group_by_system(ps), whole
GroupBySystem(ps) ==
    /\ bpc = "idle"
    /\ bpc' = "grouped"
    /\ gbsIn' = ps
    /\ gbsOut' = group_by_system(ps)
    /\ UNCHANGED <<items, batch_size, batches, bidx, batchLog, results>>

(***************************************************************************)
(* main: phase 1 (load data, construct ClaudeClient, track_progress), the  *)
(* four later phases, completion, and the `except Exception` handler.      *)
(***************************************************************************)
PyNone == "<None>"
ApiKeys == {PyNone, "", "sk-ant-key"}

\* `not v` is False (claude_api.py:34)
TruthyMutC11(v) == v # PyNone
Truthy(v) == v \notin {PyNone, ""}

\* `api_key or os.getenv("ANTHROPIC_API_KEY")`
ApiKeyOf(api_key, env) == IF Truthy(api_key) THEN api_key ELSE env

\* a CSV file on disk: absent, or a header and its rows
CsvFile(exists, columns_ok, rows) == [exists |-> exists, columns_ok |-> columns_ok, rows |-> rows]
CsvFiles ==
    {CsvFile(FALSE, FALSE, 0)} \cup
    {CsvFile(TRUE, c, n) : c \in BOOLEAN, n \in 0..MaxParts}

\* DataLoader.load_parts_catalog: open() raises for a missing file; the column
\* test runs once per row
load_parts_catalog(file) ==
    IF ~file.exists THEN [ok |-> FALSE, rows |-> 0, error |-> "FileNotFoundError"]
    ELSE IF file.rows > 0 /\ ~file.columns_ok
         THEN [ok |-> FALSE, rows |-> 0, error |-> "ValueError"]
         ELSE [ok |-> TRUE, rows |-> file.rows, error |-> "none"]

\* DataLoader.load_customer_vmrs_catalog: row['vmrs_code'] raises KeyError
load_customer_vmrs_catalog(file) ==
    IF ~file.exists THEN [ok |-> FALSE, rows |-> 0, error |-> "FileNotFoundError"]
    ELSE IF file.rows > 0 /\ ~file.columns_ok
         THEN [ok |-> FALSE, rows |-> 0, error |-> "KeyError"]
         ELSE [ok |-> TRUE, rows |-> file.rows, error |-> "none"]

NoClient == "<no client>"
NoProgress == [total_parts |-> 0 - 1]

\* BatchProcessor.track_progress
track_progress(total_parts) ==
    [total_parts |-> total_parts, classified |-> 0, pattern_matched |-> 0,
     web_searched |-> 0, mapped |-> 0, validated |-> 0, failed |-> 0,
     by_system |-> <<>>]

\* the phases main enters after PHASE 1: INITIALIZATION
LaterPhases == <<"CLASSIFICATION", "SYSTEM-BY-SYSTEM PROCESSING", "AGGREGATION", "ERP PREPARATION">>

MainInit ==
    /\ mainPc = "idle"
    /\ args = [input |-> CsvFile(FALSE, FALSE, 0), vmrs_catalog |-> CsvFile(FALSE, FALSE, 0),
               dry_run |-> FALSE]
    /\ environ = PyNone
    /\ loaded = <<>>
    /\ claude_client = NoClient
    /\ progress = NoProgress
    /\ phases = <<>>
    /\ outputs = {}
    /\ exit_code = <<>>
    /\ mainError = "none"

\* main() up to the try block
main(a, env) ==
    /\ mainPc = "idle"
    /\ mainPc' = "load"
    /\ args' = a
    /\ environ' = env
    /\ UNCHANGED <<loaded, claude_client, progress, phases, outputs, exit_code, mainError>>

\* main.py:117-125: both loads, either of which may raise
LoadInputData ==
    /\ mainPc = "load"
    /\ LET parts_catalog == load_parts_catalog(args.input)
           catalog       == load_customer_vmrs_catalog(args.vmrs_catalog)
       IN  IF ~parts_catalog.ok
           THEN /\ mainPc' = "except"
                /\ mainError' = parts_catalog.error
                /\ UNCHANGED loaded
           ELSE IF ~catalog.ok
           THEN /\ mainPc' = "except"
                /\ mainError' = catalog.error
                /\ UNCHANGED loaded
           ELSE /\ mainPc' = "client"
                /\ loaded' = <<parts_catalog.rows, catalog.rows>>
                /\ UNCHANGED mainError
    /\ UNCHANGED <<args, environ, claude_client, progress, phases, outputs, exit_code>>

\* main.py:127-132: ClaudeClient(config=CLAUDE_CONFIG), whose __init__ raises
\* ValueError without a key, then BatchProcessor.track_progress
InitClient ==
    /\ mainPc = "client"
    /\ LET api_key == ApiKeyOf(PyNone, environ)
       IN  IF ~Truthy(api_key)
           THEN /\ mainPc' = "except"
                /\ mainError' = "ValueError"
                /\ UNCHANGED <<claude_client, progress>>
           ELSE /\ mainPc' = "phases"
                /\ claude_client' = api_key
                /\ progress' = track_progress(loaded[1])
                /\ UNCHANGED mainError
    /\ UNCHANGED <<args, environ, loaded, phases, outputs, exit_code>>

\* main.py:134-172: each later phase logs its banner and that it is not implemented
RunPhase ==
    /\ mainPc = "phases"
    /\ Len(phases) < Len(LaterPhases)
    /\ phases' = Append(phases, LaterPhases[Len(phases) + 1])
    /\ UNCHANGED <<mainPc, args, environ, loaded, claude_client, progress, outputs,
                   exit_code, mainError>>

\* main.py:174-189: the output paths are logged, nothing is written; return 0
Completion ==
    /\ mainPc = "phases"
    /\ Len(phases) = Len(LaterPhases)
    /\ mainPc' = "returned"
    /\ exit_code' = <<0>>
    /\ UNCHANGED <<args, environ, loaded, claude_client, progress, phases, outputs, mainError>>

\* main.py:191-193: `except Exception as e: ... return 1`
MainExcept ==
    /\ mainPc = "except"
    /\ mainPc' = "returned"
    /\ exit_code' = <<1>>
    /\ UNCHANGED <<args, environ, loaded, claude_client, progress, phases, outputs, mainError>>

(***************************************************************************)
(* The operations that receive the catalog or the input parts.  Each reads *)
(* its argument and builds a new value; none assigns into it.              *)
(***************************************************************************)
RefInit ==
    /\ refPc = "idle"
    /\ customer_catalog = <<>>
    /\ input_parts = <<>>
    /\ refLog = <<>>

Called(op, result) == [op |-> op, result |-> result]

\* main.py:119-122 and SystemClassifier.__init__: the loaded lists are handed on
LoadReferenceData(catalog, ps) ==
    /\ refPc = "idle"
    /\ refPc' = "loaded"
    /\ customer_catalog' = catalog
    /\ input_parts' = ps
    /\ UNCHANGED refLog

GetSystemCodesMutC19 ==
    /\ refPc = "loaded"
    /\ Len(refLog) < MaxCalls
    /\ refLog' = Append(refLog, Called("get_system_codes", get_system_codes(customer_catalog)))
    /\ customer_catalog' = SelectSeq(customer_catalog, LAMBDA e : ~HasHyphen(e.vmrs_code))
    /\ UNCHANGED <<refPc, input_parts>>
\* DataLoader.get_system_codes(customer_catalog)
GetSystemCodes ==
    /\ refPc = "loaded"
    /\ Len(refLog) < MaxCalls
    /\ refLog' = Append(refLog, Called("get_system_codes", get_system_codes(customer_catalog)))
    /\ UNCHANGED <<refPc, customer_catalog, input_parts>>

\* OutputValidator.validate_vmrs_code(code, customer_catalog)
ValidateVmrsCode(code) ==
    /\ refPc = "loaded"
    /\ Len(refLog) < MaxCalls
    /\ refLog' = Append(refLog, Called("validate_vmrs_code",
                                       validate_vmrs_code(code, customer_catalog)))
    /\ UNCHANGED <<refPc, customer_catalog, input_parts>>

\* SystemClassifier._build_prompt(input_parts)
BuildPrompt ==
    /\ refPc = "loaded"
    /\ Len(refLog) < MaxCalls
    /\ refLog' = Append(refLog, Called("_build_prompt", _build_prompt(input_parts)))
    /\ UNCHANGED <<refPc, customer_catalog, input_parts>>

(***************************************************************************)
(* classify_parts called again on the same SystemClassifier with the same  *)
(* parts, the Oracle stub answering as it did the first time.              *)
(***************************************************************************)
NoFirstRun ==
    [attemptLog |-> <<>>, content |-> NoContent, cpc |-> "idle",
     grouped |-> NoGroups, error |-> "none"]

ReplayInit ==
    /\ run = 0
    /\ firstRun = NoFirstRun

\* the first call
ClassifyFirst(ps) ==
    /\ run = 0
    /\ run' = 1
    /\ ClassifyCall(ps)
    /\ UNCHANGED firstRun

\* the second call: a new call_claude invocation with its own loop variables
ClassifyAgain ==
    /\ run = 1
    /\ cpc \in {"returned", "raised"}
    /\ run' = 2
    /\ firstRun' = [attemptLog |-> attemptLog, content |-> clientResult, cpc |-> cpc,
                    grouped |-> grouped, error |-> classifyError]
    /\ prompt' = _build_prompt(parts)
    /\ cpc' = "calling"
    /\ parsed' = NoDoc
    /\ grouped' = NoGroups
    /\ classifyError' = "none"
    /\ clientPc' = "calling"
    /\ max_retries' = DefaultMaxRetries
    /\ attempt' = 0
    /\ calls' = calls + 1
    /\ attemptLog' = <<>>
    /\ waitLog' = <<>>
    /\ trace' = <<>>
    /\ clientResult' = NoContent
    /\ clientError' = "none"
    /\ UNCHANGED parts

\* the stub's answer to an attempt of the running call
StubAnswers == IF run = 2 THEN {firstRun.content} \ {NoContent} ELSE Contents

(***************************************************************************)
(* Stages 2 to 5 and the routing between them.  main.py leaves phases 2-5  *)
(* as logged TODOs and the bodies of PatternMatcher.match_parts,           *)
(* WebResearcher.research_part, VMRSMapper.map_part and                    *)
(* QAValidator.validate_batch are not in the source; the per-part state    *)
(* machine below follows the written specification (routing policy, stage  *)
(* executors, error taxonomy).  The thresholds and the catalog lookup are  *)
(* the source's.                                                           *)
(***************************************************************************)
\* settings.py CONFIDENCE_THRESHOLDS
CONFIDENCE_THRESHOLDS ==
    [auto_approve |-> 90, medium_confidence |-> 70, require_web_search |-> 70,
     flag_for_review |-> 90]

\* the confidences a stage can report
ConfLevels == {0, 69, 70, 89, 90, 100}

NoCode == <<>>
TerminalStatuses == {"VALIDATED", "NEEDS_REVIEW", "FAILED"}

NoRecord ==
    [state |-> "NONE", status |-> "PENDING", routing |-> "none", system_code |-> "none",
     vmrs_code |-> NoCode, confidence |-> 0, stage_history |-> <<>>]

\* one stage_history entry: (stage_name, outcome, confidence)
HistoryEntry(stage, outcome, confidence) ==
    [stage |-> stage, outcome |-> outcome, confidence |-> confidence]

\* after Stage 1 the routing field selects the branch
RoutedStateMutC12(routing) ==
    IF routing = "WEB_SEARCH_NEEDED" THEN "ROUTED_WEB" ELSE "ROUTED_PATTERN"
RoutedState(routing) ==
    IF routing = "EXACT_MATCH" THEN "ROUTED_EXACT"
    ELSE IF routing = "PATTERN_MATCH_NEEDED" THEN "ROUTED_PATTERN"
    ELSE "ROUTED_WEB"

\* the routing policy: the stage a record in this state is handed to
decide(state) ==
    IF state = "NEW" THEN "stage1"
    ELSE IF state = "ROUTED_PATTERN" THEN "stage2"
    ELSE IF state = "ROUTED_WEB" THEN "stage3"
    ELSE IF state \in {"ROUTED_EXACT", "ENRICHED"} THEN "stage4"
    ELSE IF state \in {"MAPPED", "MAPPED_VIA_PATTERN"} THEN "stage5"
    ELSE "none"

\* a stage is invoked for a record only while the record is not terminal
StageMayRunMutC13(r) == r.state # "NONE"
StageMayRun(r) == r.state # "NONE" /\ r.status = "PENDING"

\* Stage 5 may lower the confidence handed in, never raise it
AdjustedConfidences(confidence) == {c \in ConfLevels : c <= confidence}

\* the confidence the final status is computed from
StatusConfidenceMutC15(handed_in, adjusted) == handed_in
StatusConfidence(handed_in, adjusted) == adjusted

\* after Stage 5: a code missing from the catalog downgrades to NEEDS_REVIEW;
\* FAIL -> FAILED; PASS at or above auto_approve -> VALIDATED; else NEEDS_REVIEW
FinalStatus(verdict, confidence, in_catalog) ==
    IF ~in_catalog THEN "NEEDS_REVIEW"
    ELSE IF verdict = "FAIL" THEN "FAILED"
    ELSE IF verdict = "PASS" /\ confidence >= CONFIDENCE_THRESHOLDS.auto_approve
         THEN "VALIDATED"
    ELSE "NEEDS_REVIEW"

StageInit == rec = NoRecord

\* a part is ingested and the catalog it is classified against is loaded
Ingest(catalog) ==
    /\ rec.state = "NONE"
    /\ rec' = [rec EXCEPT !.state = "NEW"]
    /\ customer_catalog' = catalog
    /\ UNCHANGED <<refPc, input_parts, refLog>>

\* Stage 1 assigns system_code, routing and the initial confidence
Stage1(routing, system_code, confidence) ==
    /\ StageMayRun(rec)
    /\ decide(rec.state) = "stage1"
    /\ rec' = [rec EXCEPT !.state = RoutedState(routing),
                          !.routing = routing,
                          !.system_code = system_code,
                          !.confidence = confidence,
                          !.stage_history = Append(@, HistoryEntry("stage1", routing, confidence))]
    /\ UNCHANGED refVars

\* Stage 2: a code found with confidence >= require_web_search goes to
\* validation, anything else to web search
Stage2(code, confidence) ==
    /\ StageMayRun(rec)
    /\ decide(rec.state) = "stage2"
    /\ LET high == code # NoCode /\ confidence >= CONFIDENCE_THRESHOLDS.require_web_search
       IN  rec' = [rec EXCEPT !.state = IF high THEN "MAPPED_VIA_PATTERN" ELSE "ROUTED_WEB",
                              !.vmrs_code = IF high THEN code ELSE NoCode,
                              !.confidence = confidence,
                              !.stage_history =
                                  Append(@, HistoryEntry("stage2",
                                                         IF high THEN "matched" ELSE "needs_web_search",
                                                         confidence))]
    /\ UNCHANGED refVars

\* Stage 3 enriches the description
Stage3 ==
    /\ StageMayRun(rec)
    /\ decide(rec.state) = "stage3"
    /\ rec' = [rec EXCEPT !.state = "ENRICHED",
                          !.stage_history = Append(@, HistoryEntry("stage3", "enriched", rec.confidence))]
    /\ UNCHANGED refVars

\* Stage 4 maps the part to a code
Stage4(code, confidence) ==
    /\ StageMayRun(rec)
    /\ decide(rec.state) = "stage4"
    /\ rec' = [rec EXCEPT !.state = "MAPPED",
                          !.vmrs_code = code,
                          !.confidence = confidence,
                          !.stage_history = Append(@, HistoryEntry("stage4", "mapped", confidence))]
    /\ UNCHANGED refVars

\* Stage 5 re-verifies the code against the catalog, adjusts the confidence
\* and sets the final status
Stage5(adjusted, verdict) ==
    /\ StageMayRun(rec)
    /\ decide(rec.state) = "stage5"
    /\ adjusted \in AdjustedConfidences(rec.confidence)
    /\ LET status == FinalStatus(verdict, StatusConfidence(rec.confidence, adjusted),
                                 validate_vmrs_code(rec.vmrs_code, customer_catalog))
       IN  rec' = [rec EXCEPT !.state = status,
                              !.status = status,
                              !.confidence = adjusted,
                              !.stage_history = Append(@, HistoryEntry("stage5", verdict, adjusted))]
    /\ UNCHANGED refVars

\* the call of the stage the record is handed to exhausts its retries
StageFailed ==
    /\ StageMayRun(rec)
    /\ decide(rec.state) \in {"stage2", "stage3", "stage4", "stage5"}
    /\ rec' = [rec EXCEPT !.status = "FAILED",
                          !.stage_history = Append(@, HistoryEntry(decide(rec.state), "failed",
                                                                   rec.confidence))]
    /\ UNCHANGED refVars

(***************************************************************************)
(* OutputValidator.validate_agent_output: jsonschema.validate of an agent  *)
(* output against AGENT_1_SCHEMA or AGENT_2_SCHEMA; no schema for 3 to 5.  *)
(* An output is {key: [items]} or a JSON value that is no object.          *)
(***************************************************************************)
NoCall == [op |-> "none"]

\* the outputs handed to the validator: items that meet the schemas and items
\* that break them in one place, under the schema's key and under other keys
AgentOutputs ==
    LET AgentOutput(type, key, its) == [type |-> type, key |-> key, items |-> its]
        \* items of the shape AGENT_1_SCHEMA describes
        Agent1Item(confidence, routing) ==
            [part_code |-> "P1", part_name |-> PartNameOf("P1"), primary_system |-> "13",
             confidence |-> confidence, routing |-> routing]
        \* items of the shape AGENT_2_SCHEMA describes
        Agent2Item(confidence, match_type) ==
            [part_code |-> "P1", part_name |-> PartNameOf("P1"), confidence |-> confidence,
             match_type |-> match_type, web_search_needed |-> FALSE]
        \* items of a Stage 5 output: vmrs_code, confidence, status
        Agent5Item(confidence, status) ==
            [part_code |-> "P1", vmrs_code |-> "13-040", confidence |-> confidence, status |-> status]
        Agent1Items ==
            {Agent1Item(JInt(95), "EXACT_MATCH"), Agent1Item(JFloat(95), "WEB_SEARCH_NEEDED"),
            Agent1Item(JInt(95), "MANUAL_REVIEW"), Agent1Item(JInt(101), "EXACT_MATCH"),
            Agent1Item(JInt(0 - 1), "EXACT_MATCH"), Agent1Item(JBool(1), "EXACT_MATCH"),
            Without(Agent1Item(JInt(95), "EXACT_MATCH"), "routing"),
            Without(Agent1Item(JInt(95), "EXACT_MATCH"), "confidence")}
        Agent2Items ==
            {Agent2Item(JInt(80), "pattern"), Agent2Item(JInt(80), "fuzzy"),
            Agent2Item(JInt(150), "exact"),
            Without(Agent2Item(JInt(80), "none"), "confidence")}
        Agent5Items ==
            {Agent5Item(JInt(95), "PASS"), Agent5Item(JInt(95), "MAYBE"),
            Agent5Item(JInt(150), "REVIEW"),
            Without(Agent5Item(JInt(95), "FAIL"), "confidence")}
    IN  {AgentOutput("object", "classifications", its) : its \in SeqsUpTo(Agent1Items, 2)}
        \cup {AgentOutput("object", "classified_parts", <<x>>) : x \in Agent1Items}
        \cup {AgentOutput("object", "mappings", <<x>>) : x \in Agent2Items}
        \cup {AgentOutput("object", "validations", <<x>>) : x \in Agent5Items}
        \cup {AgentOutput("array", "none", <<>>)}

\* the part of a schema the validation depends on: the property holding the
\* array, the items' required fields, and the enum of one field
AGENT_1_SCHEMA ==
    [property |-> "classifications",
     required |-> {"part_code", "part_name", "primary_system", "confidence", "routing"},
     enum_field |-> "routing",
     enum |-> {"EXACT_MATCH", "PATTERN_MATCH_NEEDED", "WEB_SEARCH_NEEDED"}]
AGENT_2_SCHEMA ==
    [property |-> "mappings",
     required |-> {"part_code", "part_name", "confidence", "match_type", "web_search_needed"},
     enum_field |-> "match_type",
     enum |-> {"exact", "pattern", "none"}]

\* {"type": "number", "minimum": 0, "maximum": 100}: jsonschema counts int and
\* float as number, not bool
NumberInRange(v) == v.kind \in {"int", "float"} /\ v.val >= 0 /\ v.val <= 100

\* one element of the array against "items"
ItemValid(schema, item) ==
    /\ schema.required \subseteq DOMAIN item
    /\ ("confidence" \in DOMAIN item => NumberInRange(item.confidence))
    /\ (schema.enum_field \in DOMAIN item => item[schema.enum_field] \in schema.enum)

\* jsonschema.validate(instance=output, schema=schema): "properties" constrains
\* a property only when the instance has it
SchemaValidates(schema, output) ==
    /\ output.type = "object"
    /\ (output.key = schema.property =>
           \A i \in DOMAIN output.items : ItemValid(schema, output.items[i]))

\* schemas = {1: AGENT_1_SCHEMA, 2: AGENT_2_SCHEMA}; schemas.get(agent_number)
validate_agent_output(output, agent_number) ==
    IF agent_number \notin {1, 2} THEN Returned(TRUE)        \* `if not schema`: warning, return True
    ELSE LET schema == IF agent_number = 1 THEN AGENT_1_SCHEMA ELSE AGENT_2_SCHEMA
         IN  IF SchemaValidates(schema, output) THEN Returned(TRUE)
             ELSE Raised("ValidationError")

ValidateAgentOutput(output, agent_number) ==
    /\ called = NoCall
    /\ called' = [op |-> "validate_agent_output", output |-> output,
                  agent_number |-> agent_number]
    /\ callOutcome' = validate_agent_output(output, agent_number)

(***************************************************************************)
(* RulesLoader.load_system_rules / load_search_template over a rules       *)
(* directory: a function from file paths to a text file or no file         *)
(***************************************************************************)
Absent == [exists |-> FALSE, text |-> ""]
File(text) == [exists |-> TRUE, text |-> text]

RuleSystemCodes == {"13", "99"}

system_names == [c \in {"10", "13", "17"} |->
                    IF c = "10" THEN "lubrication" ELSE IF c = "13" THEN "brakes" ELSE "tires"]

\* system_names.get(system_code, f"system_{system_code}")
SystemNameOf(system_code) ==
    IF system_code \in DOMAIN system_names THEN system_names[system_code]
    ELSE "system_" \o system_code

SpecificRulesFile(system_code) ==
    "rules_system_" \o system_code \o "_" \o SystemNameOf(system_code) \o ".txt"
GenericRulesFile(system_code) == "rules_system_" \o system_code \o ".txt"
TemplateFile(system_code) ==
    "search_templates/search_template_system_" \o system_code \o ".txt"

\* the rules directories: each path holds no file, an empty file, or text that
\* names the file it came from
RulesDirs ==
    LET RulesPaths ==
            UNION {{SpecificRulesFile(c), GenericRulesFile(c), TemplateFile(c)} :
                      c \in RuleSystemCodes}
        FileStates(path) == {Absent, File(""), File("text of " \o path)}
    IN  {d \in [RulesPaths -> UNION {FileStates(q) : q \in RulesPaths}] :
            \A q \in RulesPaths : d[q] \in FileStates(q)}

DefaultSearchTemplate == "{Part Name} {Part Code} specifications"

load_system_rules(rules_dir, system_code) ==
    LET specific == SpecificRulesFile(system_code)
        rules_file == IF rules_dir[specific].exists THEN specific
                      ELSE GenericRulesFile(system_code)
    IN  IF ~rules_dir[rules_file].exists THEN Returned("")     \* warning, return ""
        ELSE Returned(rules_dir[rules_file].text)

load_search_templateMutC23(rules_dir, system_code) ==
    Returned(rules_dir[TemplateFile(system_code)].text)

load_search_template(rules_dir, system_code) ==
    LET template_file == TemplateFile(system_code)
    IN  IF ~rules_dir[template_file].exists THEN Returned(DefaultSearchTemplate)
        ELSE Returned(rules_dir[template_file].text)

LoadSystemRules(rules_dir, system_code) ==
    /\ called = NoCall
    /\ called' = [op |-> "load_system_rules", rules_dir |-> rules_dir,
                  system_code |-> system_code]
    /\ callOutcome' = load_system_rules(rules_dir, system_code)

LoadSearchTemplate(rules_dir, system_code) ==
    /\ called = NoCall
    /\ called' = [op |-> "load_search_template", rules_dir |-> rules_dir,
                  system_code |-> system_code]
    /\ callOutcome' = load_search_template(rules_dir, system_code)

(***************************************************************************)
(* ClaudeClient.validate_json_response on the text itself.  A content is a *)
(* sequence of pieces: the json fence and the plain fence, the digits      *)
(* "1" and "2" (a run of digits is a JSON number), a blank, and "x", which *)
(* stands for any text that is not JSON.                                   *)
(***************************************************************************)
JsonFence == "<fence>json"    \* three backticks and the word json
PlainFence == "<fence>"       \* three backticks
Fences == {JsonFence, PlainFence}
Texts == SeqsUpTo(Fences \cup {"1", "2", " ", "x"}, MaxPieces)

RECURSIVE Strip(_)
\* str.strip()
Strip(t) ==
    IF t = <<>> THEN t
    ELSE IF Head(t) = " " THEN Strip(Tail(t))
    ELSE IF t[Len(t)] = " " THEN Strip(SubSeq(t, 1, Len(t) - 1))
    ELSE t

RECURSIVE NumberOf(_)
\* the number a run of digits denotes
NumberOf(t) ==
    IF t = <<>> THEN 0
    ELSE 10 * NumberOf(SubSeq(t, 1, Len(t) - 1)) + (IF t[Len(t)] = "1" THEN 1 ELSE 2)

\* json.loads(t): blanks around the document are skipped
json_loads(t) ==
    LET doc == Strip(t)
    IN  IF doc # <<>> /\ \A i \in DOMAIN doc : doc[i] \in {"1", "2"}
        THEN Returned(NumberOf(doc))
        ELSE Raised("JSONDecodeError")

\* content.find(piece, start), 1-based; 0 where Python gives -1
Find(t, wanted, start) ==
    LET hits == {i \in start..Len(t) : t[i] \in wanted}
    IN  IF hits = {} THEN 0 ELSE CHOOSE i \in hits : \A j \in hits : i <= j

\* content[start:end] for the text after the opener at index open: up to the
\* next fence, and up to but excluding the last character when there is none
\* (end == -1); that text holds no fence, so its last piece is one character
FenceBody(t, open) ==
    LET end == Find(t, Fences, open + 1)
    IN  IF end = 0 THEN SubSeq(t, open + 1, Len(t) - 1)
        ELSE SubSeq(t, open + 1, end - 1)

validate_json_text(content) ==
    LET whole == json_loads(content)
    IN  IF whole.ok THEN whole
        ELSE IF Find(content, {JsonFence}, 1) # 0
        THEN json_loads(Strip(FenceBody(content, Find(content, {JsonFence}, 1))))
        ELSE IF Find(content, {PlainFence}, 1) # 0
        THEN json_loads(Strip(FenceBody(content, Find(content, {PlainFence}, 1))))
        ELSE Raised("ValueError")

ValidateJsonResponse(content) ==
    /\ called = NoCall
    /\ called' = [op |-> "validate_json_response", content |-> content]
    /\ callOutcome' = validate_json_text(content)

(***************************************************************************)
(* BatchProcessor.track_progress / update_progress on one progress dict    *)
(***************************************************************************)
\* BatchProcessor.update_progress: the dictionary it leaves and what it raised
update_progress(prog, stage, count, system_code) ==
    LET \* progress[stage] += count: by_system holds a dict, and dict += int
        \* raises TypeError
        first == IF stage \notin DOMAIN prog THEN [progress |-> prog, error |-> "none"]
                 ELSE IF stage = "by_system" THEN [progress |-> prog, error |-> "TypeError"]
                 ELSE [progress |-> [prog EXCEPT ![stage] = @ + count], error |-> "none"]
        \* the `if system_code:` block
        AddToSystem(by_system) ==
            LET b == IF system_code \in DOMAIN by_system THEN by_system
                     ELSE [s \in (DOMAIN by_system) \cup {system_code} |->
                             IF s = system_code THEN [total |-> 0, completed |-> 0]
                             ELSE by_system[s]]
            IN  [b EXCEPT ![system_code].completed = @ + count]
    IN  IF first.error # "none" THEN first
        ELSE IF Truthy(system_code)
        THEN [first EXCEPT !.progress.by_system = AddToSystem(@)]
        ELSE first

TrackProgress(total_parts) ==
    /\ updates = <<>>
    /\ progressDict' = track_progress(total_parts)
    /\ updates' = <<[op |-> "track_progress", total_parts |-> total_parts]>>
    /\ UNCHANGED progError

UpdateProgress(stage, count, system_code) ==
    /\ updates # <<>>
    /\ Len(updates) <= MaxUpdates
    /\ LET r == update_progress(progressDict, stage, count, system_code)
       IN  /\ progressDict' = r.progress
           /\ progError' = r.error
    /\ updates' = Append(updates, [op |-> "update_progress", stage |-> stage,
                                   count |-> count, system_code |-> system_code])

(***************************************************************************)
(* Specifications                                                          *)
(***************************************************************************)
Init ==
    /\ ClientInit /\ ClassifyInit /\ BatchInit
    /\ MainInit /\ RefInit /\ StageInit /\ ReplayInit
    /\ called = NoCall /\ callOutcome = Raised("not called")
    /\ progressDict = NoProgress /\ updates = <<>> /\ progError = "none"

ClientNext ==
    \/ /\ clientPc = "idle"
       /\ \E n \in 0..MaxRetries : call_claude(n)
       /\ UNCHANGED <<classifyVars, batchVars, mainVars, refVars, stageVars, replayVars, callVars, progVars>>
    \/ /\ clientPc = "calling"
       /\ \E c \in ClientContents : AttemptOk(c)
       /\ UNCHANGED <<classifyVars, batchVars, mainVars, refVars, stageVars, replayVars, callVars, progVars>>
    \/ /\ clientPc = "calling"
       /\ \E e \in OracleErrors : AttemptFail(e)
       /\ UNCHANGED <<classifyVars, batchVars, mainVars, refVars, stageVars, replayVars, callVars, progVars>>
    \/ LoopExhausted /\ UNCHANGED <<classifyVars, batchVars, mainVars, refVars, stageVars, replayVars, callVars, progVars>>

ClientSpec == Init /\ [][ClientNext]_vars

\* call_claude runs to its return or raise: no step of it waits on another process
FairClientSpec == ClientSpec /\ WF_vars(ClientNext)

ClassifyNext ==
    \/ /\ cpc = "idle"
       /\ \E ps \in PartLists : ClassifyCall(ps)
       /\ UNCHANGED <<batchVars, mainVars, refVars, stageVars, replayVars, callVars, progVars>>
    \/ /\ clientPc = "calling"
       /\ \E c \in Contents : AttemptOk(c)
       /\ UNCHANGED <<classifyVars, batchVars, mainVars, refVars, stageVars, replayVars, callVars, progVars>>
    \/ AttemptFail(TransientError) /\ UNCHANGED <<classifyVars, batchVars, mainVars, refVars, stageVars, replayVars, callVars, progVars>>
    \/ ClassifyFinish /\ UNCHANGED <<batchVars, mainVars, refVars, stageVars, replayVars, callVars, progVars>>
    \/ ClassifyReraise /\ UNCHANGED <<batchVars, mainVars, refVars, stageVars, replayVars, callVars, progVars>>

ClassifySpec == Init /\ [][ClassifyNext]_vars

BatchNext ==
    \/ /\ bpc = "idle"
       /\ \E k \in 0..MaxItems, bs \in 1..MaxBatchSize :
             process_with_progress([i \in 1..k |-> i], bs)
       /\ UNCHANGED <<clientVars, classifyVars, mainVars, refVars, stageVars, replayVars, callVars, progVars>>
    \/ /\ bpc = "idle"
       /\ \E k \in 1..MaxStageParts, agent \in {"agent_2", "agent_5"} :
             process_with_progress([i \in 1..k |-> i], BATCH_SIZES[agent])
       /\ UNCHANGED <<clientVars, classifyVars, mainVars, refVars, stageVars, replayVars, callVars, progVars>>
    \/ /\ bpc = "idle"
       /\ \E k \in 0..MaxItems, bs \in 1..MaxBatchSize :
             CreateBatches([i \in 1..k |-> i], bs)
       /\ UNCHANGED <<clientVars, classifyVars, mainVars, refVars, stageVars, replayVars, callVars, progVars>>
    \/ /\ bpc = "running"
       /\ \E o \in ProcessOutcomes : ProcessBatch(o)
       /\ UNCHANGED <<clientVars, classifyVars, mainVars, refVars, stageVars, replayVars, callVars, progVars>>
    \/ ProcessReturn /\ UNCHANGED <<clientVars, classifyVars, mainVars, refVars, stageVars, replayVars, callVars, progVars>>
    \/ /\ bpc = "idle"
       /\ \E ps \in ClassifiedLists : GroupBySystem(ps)
       /\ UNCHANGED <<clientVars, classifyVars, mainVars, refVars, stageVars, replayVars, callVars, progVars>>

BatchSpec == Init /\ [][BatchNext]_vars

MainNext ==
    \/ /\ mainPc = "idle"
       /\ \E i \in CsvFiles, c \in CsvFiles, d \in BOOLEAN, env \in ApiKeys :
             main([input |-> i, vmrs_catalog |-> c, dry_run |-> d], env)
       /\ UNCHANGED <<clientVars, classifyVars, batchVars, refVars, stageVars, replayVars, callVars, progVars>>
    \/ LoadInputData /\ UNCHANGED <<clientVars, classifyVars, batchVars, refVars, stageVars, replayVars, callVars, progVars>>
    \/ InitClient /\ UNCHANGED <<clientVars, classifyVars, batchVars, refVars, stageVars, replayVars, callVars, progVars>>
    \/ RunPhase /\ UNCHANGED <<clientVars, classifyVars, batchVars, refVars, stageVars, replayVars, callVars, progVars>>
    \/ Completion /\ UNCHANGED <<clientVars, classifyVars, batchVars, refVars, stageVars, replayVars, callVars, progVars>>
    \/ MainExcept /\ UNCHANGED <<clientVars, classifyVars, batchVars, refVars, stageVars, replayVars, callVars, progVars>>

MainSpec == Init /\ [][MainNext]_vars

ReferenceNext ==
    \/ /\ refPc = "idle"
       /\ \E catalog \in Catalogs, ps \in PartLists : LoadReferenceData(catalog, ps)
       /\ UNCHANGED <<clientVars, classifyVars, batchVars, mainVars, stageVars, replayVars, callVars, progVars>>
    \/ GetSystemCodes
       /\ UNCHANGED <<clientVars, classifyVars, batchVars, mainVars, stageVars, replayVars, callVars, progVars>>
    \/ /\ refPc = "loaded"
       /\ \E code \in VmrsCodes : ValidateVmrsCode(code)
       /\ UNCHANGED <<clientVars, classifyVars, batchVars, mainVars, stageVars, replayVars, callVars, progVars>>
    \/ BuildPrompt
       /\ UNCHANGED <<clientVars, classifyVars, batchVars, mainVars, stageVars, replayVars, callVars, progVars>>
    \/ /\ refPc = "loaded"
       /\ ClassifyCall(input_parts)
       /\ UNCHANGED <<batchVars, mainVars, refVars, stageVars, replayVars, callVars, progVars>>
    \/ /\ refPc = "loaded"
       /\ clientPc = "calling"
       \* the answers of ClientSpec and a well-formed one that names system 17
       /\ \E c \in ClientContents \cup
                    {Content("raw", JsonDoc("object",
                        <<Entry("P1", "17", "PATTERN_MATCH_NEEDED", JInt(80))>>))} :
             AttemptOk(c)
       /\ UNCHANGED <<classifyVars, batchVars, mainVars, refVars, stageVars, replayVars, callVars, progVars>>
    \/ /\ refPc = "loaded"
       /\ AttemptFail(TransientError)
       /\ UNCHANGED <<classifyVars, batchVars, mainVars, refVars, stageVars, replayVars, callVars, progVars>>
    \/ /\ refPc = "loaded"
       /\ ClassifyFinish
       /\ UNCHANGED <<batchVars, mainVars, refVars, stageVars, replayVars, callVars, progVars>>
    \/ /\ refPc = "loaded"
       /\ ClassifyReraise
       /\ UNCHANGED <<batchVars, mainVars, refVars, stageVars, replayVars, callVars, progVars>>

ReferenceSpec == Init /\ [][ReferenceNext]_vars

ReplayNext ==
    \/ /\ run = 0
       /\ \E ps \in PartLists : ClassifyFirst(ps)
       /\ UNCHANGED <<batchVars, mainVars, refVars, stageVars, callVars, progVars>>
    \/ ClassifyAgain /\ UNCHANGED <<batchVars, mainVars, refVars, stageVars, callVars, progVars>>
    \/ /\ run > 0
       /\ clientPc = "calling"
       /\ \E c \in StubAnswers : AttemptOk(c)
       /\ UNCHANGED <<classifyVars, batchVars, mainVars, refVars, stageVars, replayVars, callVars, progVars>>
    \/ /\ run > 0
       /\ AttemptFail(TransientError)
       /\ UNCHANGED <<classifyVars, batchVars, mainVars, refVars, stageVars, replayVars, callVars, progVars>>
    \/ /\ run > 0
       /\ ClassifyFinish
       /\ UNCHANGED <<batchVars, mainVars, refVars, stageVars, replayVars, callVars, progVars>>
    \/ /\ run > 0
       /\ ClassifyReraise
       /\ UNCHANGED <<batchVars, mainVars, refVars, stageVars, replayVars, callVars, progVars>>

ReplaySpec == Init /\ [][ReplayNext]_vars

StageNext ==
    \/ /\ rec.state = "NONE"
       /\ \E catalog \in Catalogs : Ingest(catalog)
       /\ UNCHANGED <<clientVars, classifyVars, batchVars, mainVars, replayVars, callVars, progVars>>
    \/ /\ rec.state = "NEW"
       /\ \E r \in valid_routing_values, s \in SystemCodes, c \in ConfLevels : Stage1(r, s, c)
       /\ UNCHANGED <<clientVars, classifyVars, batchVars, mainVars, replayVars, callVars, progVars>>
    \/ /\ rec.state = "ROUTED_PATTERN"
       /\ \E code \in VmrsCodes \cup {NoCode}, c \in ConfLevels : Stage2(code, c)
       /\ UNCHANGED <<clientVars, classifyVars, batchVars, mainVars, replayVars, callVars, progVars>>
    \/ Stage3 /\ UNCHANGED <<clientVars, classifyVars, batchVars, mainVars, replayVars, callVars, progVars>>
    \/ /\ rec.state \in {"ROUTED_EXACT", "ENRICHED"}
       /\ \E code \in VmrsCodes, c \in ConfLevels : Stage4(code, c)
       /\ UNCHANGED <<clientVars, classifyVars, batchVars, mainVars, replayVars, callVars, progVars>>
    \/ /\ rec.state \in {"MAPPED", "MAPPED_VIA_PATTERN"}
       /\ \E c \in ConfLevels, v \in {"PASS", "REVIEW", "FAIL"} : Stage5(c, v)
       /\ UNCHANGED <<clientVars, classifyVars, batchVars, mainVars, replayVars, callVars, progVars>>
    \/ StageFailed /\ UNCHANGED <<clientVars, classifyVars, batchVars, mainVars, replayVars, callVars, progVars>>

StageSpec == Init /\ [][StageNext]_vars

ValidateNext ==
    /\ called = NoCall
    /\ \E output \in AgentOutputs, agent_number \in 1..5 :
          ValidateAgentOutput(output, agent_number)
    /\ UNCHANGED <<clientVars, classifyVars, batchVars, mainVars, refVars, stageVars, replayVars, progVars>>

ValidateSpec == Init /\ [][ValidateNext]_vars

RulesNext ==
    \/ /\ called = NoCall
       /\ \E rules_dir \in RulesDirs, system_code \in RuleSystemCodes :
             LoadSystemRules(rules_dir, system_code)
       /\ UNCHANGED <<clientVars, classifyVars, batchVars, mainVars, refVars, stageVars, replayVars, progVars>>
    \/ /\ called = NoCall
       /\ \E rules_dir \in RulesDirs, system_code \in RuleSystemCodes :
             LoadSearchTemplate(rules_dir, system_code)
       /\ UNCHANGED <<clientVars, classifyVars, batchVars, mainVars, refVars, stageVars, replayVars, progVars>>

RulesSpec == Init /\ [][RulesNext]_vars

ProgressNext ==
    \/ /\ updates = <<>>
       /\ \E total_parts \in 0..MaxParts : TrackProgress(total_parts)
       /\ UNCHANGED <<clientVars, classifyVars, batchVars, mainVars, refVars, stageVars, replayVars, callVars>>
    \/ /\ updates # <<>>
       \* stage names: counters of the dictionary, its two other keys, and a
       \* name that is no key
       /\ \E stage \in {"classified", "validated", "total_parts", "by_system", "shipped"},
             count \in {0, 1, 2}, system_code \in {PyNone, "13", "17"} :
             UpdateProgress(stage, count, system_code)
       /\ UNCHANGED <<clientVars, classifyVars, batchVars, mainVars, refVars, stageVars, replayVars, callVars>>

ProgressSpec == Init /\ [][ProgressNext]_vars

ParseNext ==
    /\ called = NoCall
    /\ \E content \in Texts : ValidateJsonResponse(content)
    /\ UNCHANGED <<clientVars, classifyVars, batchVars, mainVars, refVars, stageVars, replayVars, progVars>>

ParseSpec == Init /\ [][ParseNext]_vars

(***************************************************************************)
(* Claims                                                                  *)
(***************************************************************************)
\* positions <<system, index>> of the returned records whose part_code is c
GroupedAt(c) ==
    {p \in UNION {{<<s, i>> : i \in DOMAIN grouped[s].parts} : s \in DOMAIN grouped} :
        grouped[p[1]].parts[p[2]].part_code = c}
InputAt(c) == {i \in DOMAIN parts : parts[i].part_code = c}

\* C1: whenever classify_parts returns, its grouped output holds exactly one
\* record per part_code of the input P: none missing, none twice, none foreign.
C1_OneRecordPerPart ==
    cpc = "returned" =>
        \A c \in PartCodes : Cardinality(GroupedAt(c)) = Cardinality(InputAt(c))

Done == clientPc \in {"returned", "raised"}
OkAttempts == {i \in DOMAIN attemptLog : attemptLog[i] = "ok"}

C2_Safety ==
    /\ Len(attemptLog) <= max_retries
    /\ OkAttempts \subseteq {Len(attemptLog)}
    /\ clientPc = "returned" <=> OkAttempts # {}
    /\ clientPc = "returned" <=> clientResult # NoContent
    /\ clientPc = "raised" => OkAttempts = {} /\ clientError # "none"

\* C2: call_claude with max_retries = n makes at most n Oracle attempts and
\* terminates; it returns exactly when an attempt succeeded, with no attempt
\* after the success, and raises when none did.
C2_BoundedAttempts == [](C2_Safety) /\ <>Done

C2_Witness == clientPc = "returned" /\ max_retries = 3 /\ Len(attemptLog) = 3

\* C3: the i-th sleep (0-indexed) lasts 5 * 2^i seconds and comes right after
\* failed attempt i, before attempt i+1; nothing sleeps before the first
\* attempt or after a successful one.
C3_BackoffSchedule ==
    /\ \A i \in DOMAIN waitLog : waitLog[i] = 5 * 2 ^ (i - 1)
    /\ \A k \in DOMAIN trace :
          trace[k][1] = "sleep" =>
             /\ k > 1
             /\ trace[k - 1] = <<"attempt", trace[k][2]>>
             /\ attemptLog[trace[k][2] + 1] # "ok"
             /\ k < Len(trace) => trace[k + 1] = <<"attempt", trace[k][2] + 1>>
    /\ \A i \in DOMAIN attemptLog :
          i < Len(attemptLog) => <<"sleep", i - 1>> \in {trace[k] : k \in DOMAIN trace}
    /\ Len(waitLog) = Cardinality({k \in DOMAIN trace : trace[k][1] = "sleep"})

C3_Witness == waitLog = <<5, 10>> /\ Len(attemptLog) = 3

AllFailedDefault ==
    /\ clientPc = "raised"
    /\ max_retries = DefaultMaxRetries
    /\ Len(attemptLog) = DefaultMaxRetries

\* C4 as claimed: with max_retries = 3 a call whose attempts all fail has
\* slept 5 + 10 + 20 = 35 seconds when it raises.
C4_Waits35 == AllFailedDefault => SumSeq(waitLog) = 35

\* C4 as amended: with max_retries = 3 a call whose attempts all fail has
\* slept 5 + 10 = 15 seconds when it raises (no sleep follows the last attempt).
C4_Waits15 == AllFailedDefault => waitLog = <<5, 10>> /\ SumSeq(waitLog) = 15

C4_Witness == AllFailedDefault /\ OkAttempts = {}

\* C5: a fatal Oracle error is not retried: the attempt that raised it is the
\* last one, no sleep follows it, and the call has raised.
C5_FatalNotRetried ==
    \A i \in DOMAIN attemptLog :
        attemptLog[i] = FatalError =>
            i = Len(attemptLog) /\ Len(waitLog) < i /\ clientPc = "raised"

\* C6: when the response content does not parse as JSON, classify_parts fails
\* only after the Oracle has been called max_retries times.
C6_MalformedRetried ==
    (cpc = "raised" /\ classifyError \in {"ValueError", "JSONDecodeError"}) =>
        Len(attemptLog) = max_retries

\* the Stage 1 schema of the specification, applied to a parsed document
EntryMeetsSchema(e) ==
    /\ {"part_code", "part_name", "vmrs_system_code", "system_name", "routing",
        "confidence", "reasoning"} \subseteq DOMAIN e
    /\ e.routing \in {"EXACT_MATCH", "PATTERN_MATCH_NEEDED", "WEB_SEARCH_NEEDED"}
    /\ e.confidence.kind \in {"int", "bool"}
    /\ e.confidence.val \in 0..100
SchemaViolated(doc) ==
    \/ doc.shape # "object"
    \/ \E i \in DOMAIN doc.classified_parts : ~EntryMeetsSchema(doc.classified_parts[i])

\* C7: a response that parses as JSON but violates the Stage 1 schema makes
\* classify_parts raise at once: one call_claude invocation, one successful
\* Oracle attempt, nothing after it, and no grouped records.
C7_SchemaFailsAtOnce ==
    (parsed # NoDoc /\ SchemaViolated(parsed)) =>
        /\ cpc = "raised"
        /\ classifyError = "Response validation failed"
        /\ grouped = NoGroups
        /\ calls = 1
        /\ clientPc = "returned"
        /\ Cardinality(OkAttempts) = 1

C7_Witness ==
    /\ cpc = "raised"
    /\ parsed.shape = "object"
    /\ Len(parsed.classified_parts) = 2
    /\ EntryMeetsSchema(parsed.classified_parts[1])
    /\ "reasoning" \notin DOMAIN parsed.classified_parts[2]

\* the confidences of the entries of doc assigned to system s, in order
SuppliedConfidences(doc, s) ==
    LET es == SelectSeq(doc.classified_parts, LAMBDA e : e.vmrs_system_code.val = s)
    IN  [i \in DOMAIN es |-> es[i].confidence]
ReturnedConfidences(s) == [i \in DOMAIN grouped[s].parts |-> grouped[s].parts[i].confidence]
OutOfRange(doc) ==
    \E i \in DOMAIN doc.classified_parts :
        /\ "confidence" \in DOMAIN doc.classified_parts[i]
        /\ doc.classified_parts[i].confidence.val \notin 0..100

\* C8: every record classify_parts returns has an integer confidence in
\* [0,100], the very value the Oracle supplied; a response with a confidence
\* outside [0,100] is rejected (raise, no records), not clamped.
C8_ConfidenceBounds ==
    /\ cpc = "returned" =>
          \A s \in DOMAIN grouped :
              /\ ReturnedConfidences(s) = SuppliedConfidences(parsed, s)
              /\ \A i \in DOMAIN grouped[s].parts :
                    /\ grouped[s].parts[i].confidence.kind \in {"int", "bool"}
                    /\ grouped[s].parts[i].confidence.val \in 0..100
    /\ (parsed # NoDoc /\ OutOfRange(parsed)) => cpc = "raised" /\ grouped = NoGroups

C8_Witness ==
    /\ cpc = "raised"
    /\ Len(parsed.classified_parts) = 2
    /\ EntryMeetsSchema(parsed.classified_parts[1])
    /\ "confidence" \in DOMAIN parsed.classified_parts[2]
    /\ parsed.classified_parts[2].confidence = JInt(101)

\* the items carried by the records of the given kind in results
ItemsIn(kind) ==
    UNION {{results[j].of[i] : i \in DOMAIN results[j].of} :
             j \in {j \in DOMAIN results : results[j].kind = kind}}
ItemsOfBatches(ks) == UNION {{batches[k][i] : i \in DOMAIN batches[k]} : k \in ks}
FailedBatches == {k \in DOMAIN batchLog : batchLog[k] \in ProcessErrors}
ErrorRecordsFor(k) ==
    {j \in DOMAIN results : results[j].kind = "error" /\ results[j].of = batches[k]}

\* C9: when process_func raises for a batch, process_with_progress records
\* exactly that batch's parts as failed, keeps the results of the other
\* batches, goes on to process every remaining batch and returns normally.
C9_BatchFailureIsLocal ==
    /\ bpc # "raised"
    /\ bpc \in {"running", "returned"} =>
          /\ Len(batchLog) = bidx
          /\ \A k \in FailedBatches : Cardinality(ErrorRecordsFor(k)) = 1
          /\ ItemsIn("error") = ItemsOfBatches(FailedBatches)
          /\ ItemsIn("result") = ItemsOfBatches((DOMAIN batchLog) \ FailedBatches)
    /\ bpc = "returned" => Len(batchLog) = Len(batches)

C9_Witness ==
    /\ bpc = "returned"
    /\ batch_size = 2
    /\ batchLog = <<StageError, "list">>
    /\ Len(batches[1]) = 2

\* C10: a fatal Oracle error raised while a batch is processed aborts the run:
\* no later batch is processed and process_with_progress does not return
\* normally.
C10_FatalAbortsRun ==
    \A k \in DOMAIN batchLog :
        batchLog[k] = FatalError => Len(batchLog) = k /\ bpc # "returned"

\* the run has no API credentials: ANTHROPIC_API_KEY is unset or empty
NoCredentials == environ \in {PyNone, ""}

\* C11: without API credentials the construction of ClaudeClient raises
\* ValueError, main enters no phase after initialization, writes no output
\* file and returns 1; main returns 0 only if no exception was caught.
C11_NoCredentialsAbort ==
    /\ (mainPc # "idle" /\ NoCredentials) =>
          /\ claude_client = NoClient
          /\ phases = <<>>
          /\ outputs = {}
          /\ (mainPc = "returned" => exit_code = <<1>>)
          /\ (loaded # <<>> /\ mainPc \in {"except", "returned"} => mainError = "ValueError")
    /\ (exit_code = <<0>> => mainError = "none")

C11_Witness ==
    /\ mainPc = "returned"
    /\ NoCredentials
    /\ loaded # <<>>
    /\ mainError = "ValueError"
    /\ exit_code = <<1>>

StagesOf(r) == [i \in 1..Len(r.stage_history) |-> r.stage_history[i].stage]

\* C12: a record routed EXACT_MATCH by Stage 1 has no stage_history entry for
\* Stage 2 or Stage 3: its next stage is mapping (Stage 4) and the one after
\* that validation (Stage 5).
C12_ExactMatchSkips ==
    rec.routing = "EXACT_MATCH" =>
        LET stages == StagesOf(rec)
        IN  /\ \A i \in DOMAIN stages : stages[i] \notin {"stage2", "stage3"}
            /\ (Len(stages) >= 2 => stages[2] = "stage4")
            /\ (Len(stages) >= 3 => stages[3] = "stage5")

C12_Witness ==
    /\ rec.routing = "EXACT_MATCH"
    /\ StagesOf(rec) = <<"stage1", "stage4", "stage5">>
    /\ rec.status = "VALIDATED"

\* C13: once a record is VALIDATED, NEEDS_REVIEW or FAILED no step changes any
\* of its fields; in particular a part whose stage call exhausted its retries
\* is handed to no further stage.
C13_TerminalIsFinal == [][rec.status \in TerminalStatuses => rec' = rec]_vars

C13_Witness ==
    /\ rec.status = "FAILED"
    /\ rec.state = "ROUTED_PATTERN"
    /\ StagesOf(rec) = <<"stage1", "stage2">>
    /\ rec.stage_history[2].outcome = "failed"

InCatalog(code) == \E i \in DOMAIN customer_catalog : customer_catalog[i].vmrs_code = code
LastEntry(r) == r.stage_history[Len(r.stage_history)]
Stage5Ran ==
    /\ rec.stage_history # <<>>
    /\ LastEntry(rec).stage = "stage5"
    /\ LastEntry(rec).outcome # "failed"

\* C14: a VALIDATED record's vmrs_code is the code of some catalog entry, and
\* a record whose mapped code is in no catalog entry leaves Stage 5 as
\* NEEDS_REVIEW.
C14_ValidatedInCatalog ==
    /\ (rec.status = "VALIDATED" => InCatalog(rec.vmrs_code))
    /\ (Stage5Ran /\ ~InCatalog(rec.vmrs_code) => rec.status = "NEEDS_REVIEW")

C14_Witness ==
    /\ Stage5Ran
    /\ customer_catalog # <<>>
    /\ rec.vmrs_code = <<"13", "999">>
    /\ LastEntry(rec).outcome = "PASS"
    /\ rec.confidence >= CONFIDENCE_THRESHOLDS.auto_approve
    /\ rec.status = "NEEDS_REVIEW"

\* the confidence handed to Stage 5: that of the entry before Stage 5's
HandedIn == rec.stage_history[Len(rec.stage_history) - 1].confidence

\* C15: after Stage 5 the record's confidence is at most the confidence handed
\* in and within 0..100, and the status follows the adjusted confidence: a
\* record is VALIDATED only if the adjusted value reaches auto_approve.
C15_NeverIncreases ==
    Stage5Ran =>
        /\ rec.confidence <= HandedIn
        /\ rec.confidence \in 0..100
        /\ (rec.status = "VALIDATED" =>
               rec.confidence >= CONFIDENCE_THRESHOLDS.auto_approve)

C15_Witness ==
    /\ Stage5Ran
    /\ InCatalog(rec.vmrs_code)
    /\ LastEntry(rec).outcome = "PASS"
    /\ HandedIn >= CONFIDENCE_THRESHOLDS.auto_approve
    /\ rec.confidence < HandedIn
    /\ rec.status = "NEEDS_REVIEW"

C17_BatchesOf5To10 ==
    (bpc \in {"running", "returned", "raised"} /\ items # <<>>
       /\ batch_size \in {BATCH_SIZES.agent_2, BATCH_SIZES.agent_5}) =>
        \A i \in DOMAIN batches : Len(batches[i]) >= 5 /\ Len(batches[i]) <= 10

PromptLists(ps) ==
    /\ prompt.count = Len(ps)
    /\ Len(prompt.parts_text) = Len(ps)
    /\ \A i \in DOMAIN ps :
          /\ prompt.parts_text[i].idx = i
          /\ prompt.parts_text[i].part_code = ps[i].part_code
          /\ prompt.parts_text[i].part_name = ps[i].part_name

\* C18: classify_parts makes exactly one call_claude invocation, with a prompt
\* that lists every input part in order, and holds grouped records only once
\* that invocation returned and its parsed response passed validation.
C18_SingleBlockingCall ==
    /\ (cpc # "idle" => calls = 1 /\ PromptLists(parts))
    /\ (grouped # NoGroups =>
           /\ cpc = "returned"
           /\ clientPc = "returned"
           /\ parsed # NoDoc
           /\ _validate_output(parsed))

C18_Witness ==
    /\ cpc = "returned"
    /\ calls = 1
    /\ Len(parts) > 1
    /\ Len(prompt.parts_text) > 1
    /\ grouped # NoGroups

\* C19: once loaded, the catalog and the input part list are changed by no
\* call of get_system_codes, validate_vmrs_code, _build_prompt or
\* classify_parts, and classify_parts' own `parts` stays the input list.
C19_ReferenceDataUnchanged ==
    [][refPc = "loaded" =>
          /\ customer_catalog' = customer_catalog
          /\ input_parts' = input_parts
          /\ (cpc' # "idle" => parts' = input_parts)]_vars

C19_Witness ==
    /\ refPc = "loaded"
    /\ customer_catalog # <<>>
    /\ input_parts # <<>>
    /\ cpc = "returned"
    /\ {refLog[i].op : i \in DOMAIN refLog} =
          {"get_system_codes", "validate_vmrs_code", "_build_prompt"}

\* a response entry with all seven required fields and one of the three routings
WellFormedEntry(e) ==
    /\ {"part_code", "part_name", "vmrs_system_code", "system_name", "routing",
        "confidence", "reasoning"} \subseteq DOMAIN e
    /\ e.routing \in {"EXACT_MATCH", "PATTERN_MATCH_NEEDED", "WEB_SEARCH_NEEDED"}

\* the document in the Oracle's answer is no object with a non-empty list of
\* well-formed entries under classified_parts
Unusable(doc) ==
    \/ doc.shape # "object"
    \/ doc.classified_parts = <<>>
    \/ \E k \in DOMAIN doc.classified_parts : ~WellFormedEntry(doc.classified_parts[k])

\* C20: when classify_parts returns, every returned record is the copy of a
\* well-formed response entry, filed under that entry's system code; an
\* answer with a missing field, another routing, a non-list or an empty
\* classified_parts makes classify_parts raise.
C20_ReturnedFromValidEntries ==
    /\ cpc = "returned" =>
          \A s \in DOMAIN grouped : \A i \in DOMAIN grouped[s].parts :
              \E k \in DOMAIN parsed.classified_parts :
                  LET e == parsed.classified_parts[k]
                  IN  /\ WellFormedEntry(e)
                      /\ e.vmrs_system_code.val = s
                      /\ grouped[s].parts[i] = GroupedPart(e)
    /\ (cpc # "calling" /\ clientPc = "returned" /\ Unusable(clientResult.body)) =>
          cpc = "raised" /\ grouped = NoGroups

C20_Witness ==
    /\ cpc = "returned"
    /\ Len(parsed.classified_parts) = 2
    /\ Cardinality(DOMAIN grouped) = 2


(***************************************************************************)
(* C21: for every agent number 1..5, validate_agent_output raises a        *)
(* validation error, and does not return True, for an output that violates *)
(* the stage's schema: an item without a required field, a routing or      *)
(* status outside its enumeration, or a confidence outside [0, 100].       *)
(***************************************************************************)
StageEnums ==
    [routing |-> {"EXACT_MATCH", "PATTERN_MATCH_NEEDED", "WEB_SEARCH_NEEDED"},
     status |-> {"PASS", "REVIEW", "FAIL"}]

OutOfContract(item) ==
    \/ ~({"part_code", "confidence"} \subseteq DOMAIN item)
    \/ /\ "confidence" \in DOMAIN item
       /\ (item.confidence.val < 0 \/ item.confidence.val > 100)
    \/ \E f \in DOMAIN StageEnums : f \in DOMAIN item /\ item[f] \notin StageEnums[f]

ViolatesStageSchema(output) ==
    \E i \in DOMAIN output.items : OutOfContract(output.items[i])

C21_ViolationRaises ==
    (called.op = "validate_agent_output" /\ ViolatesStageSchema(called.output))
        => (~callOutcome.ok /\ callOutcome.error = "ValidationError")


(***************************************************************************)
(* C22: load_system_rules raises FileNotFoundError when neither the        *)
(* system-specific nor the generic rules file exists; when one of them     *)
(* exists it returns that file's content, the system-specific one first.   *)
(***************************************************************************)
C22_MissingRulesRaise ==
    called.op = "load_system_rules" =>
        LET d == called.rules_dir
            specific == d[SpecificRulesFile(called.system_code)]
            generic == d[GenericRulesFile(called.system_code)]
        IN  IF specific.exists
            THEN callOutcome.ok /\ callOutcome.value = specific.text
            ELSE IF generic.exists
            THEN callOutcome.ok /\ callOutcome.value = generic.text
            ELSE ~callOutcome.ok /\ callOutcome.error = "FileNotFoundError"

CodeBefore(a, b) == a = "13" /\ b = "17"

C24_SystemCodes ==
    \A k \in DOMAIN refLog :
        refLog[k].op = "get_system_codes" =>
            LET r == refLog[k].result
            IN  /\ {r[i] : i \in DOMAIN r} =
                      {Head(customer_catalog[i].vmrs_code) : i \in DOMAIN customer_catalog}
                /\ \A i, j \in DOMAIN r : i < j => CodeBefore(r[i], r[j])
                /\ (customer_catalog # <<>> => r # <<>>)

\* a catalog listing system 17 before system 13, and system 13 three times
C24_Witness ==
    /\ customer_catalog = <<TireEntry, BrakeDrum, BrakePad, BrakePad>>
    /\ \E k \in DOMAIN refLog :
          refLog[k].op = "get_system_codes" /\ refLog[k].result = <<"13", "17">>


(***************************************************************************)
(* C25: for batch_size >= 1 the batches create_batches yields, joined in   *)
(* yield order, are the input list; no batch is empty, every batch but the *)
(* last holds batch_size items, the last holds 1 to batch_size, and an     *)
(* empty list yields no batch.                                             *)
(***************************************************************************)
RECURSIVE Joined(_)
Joined(seqs) == IF seqs = <<>> THEN <<>> ELSE Head(seqs) \o Joined(Tail(seqs))

C25_BatchesPartitionItems ==
    bpc = "batched" =>
        /\ Joined(batches) = items
        /\ \A k \in DOMAIN batches :
              /\ Len(batches[k]) >= 1
              /\ Len(batches[k]) <= batch_size
              /\ (k < Len(batches) => Len(batches[k]) = batch_size)
        /\ (items = <<>> => batches = <<>>)

\* three items in batches of two: a full batch and a last batch of one
C25_Witness ==
    /\ bpc = "batched"
    /\ batch_size = 2
    /\ items = <<1, 2, 3>>
    /\ batches = << <<1, 2>>, <<3>> >>

(***************************************************************************)
(* C26: process_with_progress handles the batches one at a time in input   *)
(* order and appends their results in that order; with batch_size = 1 it   *)
(* returns one result per item, in input order, and the result of an item  *)
(* whose processing raised is an error record carrying that item.          *)
(***************************************************************************)
C26_ResultsInInputOrder ==
    bpc \in {"running", "returned"} =>
        /\ bidx = Len(batchLog)
        /\ Joined([k \in DOMAIN results |-> results[k].of]) =
              Joined(SubSeq(batches, 1, bidx))
        /\ (bpc = "returned" /\ batch_size = 1) =>
              /\ Len(results) = Len(items)
              /\ \A i \in DOMAIN items :
                    /\ results[i].of = <<items[i]>>
                    /\ IF batchLog[i] \in ProcessErrors
                       THEN /\ results[i].kind = "error"
                            /\ results[i].key = "item"
                            /\ results[i].error = batchLog[i]
                       ELSE results[i].kind = "result"

\* three items handled singly; the second one raised
C26_Witness ==
    /\ bpc = "returned"
    /\ batch_size = 1
    /\ items = <<1, 2, 3>>
    /\ batchLog = <<"single", StageError, "list">>
    /\ results[2] = ErrorRecord(StageError, "item", <<2>>)


(***************************************************************************)
(* C27: in the grouping classify_parts returns, every validated response   *)
(* entry is in exactly one group, the one keyed by its vmrs_system_code;   *)
(* the group sizes add up to the number of entries; a group lists its      *)
(* entries in response order; and a group's system_name is that of the     *)
(* first entry seen for the system.                                        *)
(***************************************************************************)
EntriesOfCode(ps, s) == SelectSeq(ps, LAMBDA e : e.vmrs_system_code.val = s)

GroupPlaces ==
    UNION {{<<s, k>> : k \in DOMAIN grouped[s].parts} : s \in DOMAIN grouped}

C27_GroupedBySystemCode ==
    cpc = "returned" =>
        LET ps == parsed.classified_parts
        IN  /\ DOMAIN grouped = {ps[i].vmrs_system_code.val : i \in DOMAIN ps}
            /\ Cardinality(GroupPlaces) = Len(ps)
            /\ \A s \in DOMAIN grouped :
                  LET es == EntriesOfCode(ps, s)
                  IN  /\ Len(grouped[s].parts) = Len(es)
                      /\ \A k \in DOMAIN es :
                            /\ grouped[s].parts[k].part_code = es[k].part_code
                            /\ grouped[s].parts[k].part_name = es[k].part_name
                            /\ grouped[s].parts[k].routing = es[k].routing
                            /\ grouped[s].parts[k].confidence = es[k].confidence
                      /\ grouped[s].system_name = es[1].system_name

\* two entries of one system whose system names differ
C27_Witness ==
    /\ cpc = "returned"
    /\ Len(parsed.classified_parts) = 2
    /\ DOMAIN grouped = {"13"}
    /\ parsed.classified_parts[1].system_name # parsed.classified_parts[2].system_name
    /\ Len(grouped["13"].parts) = 2
    /\ grouped["13"].system_name = parsed.classified_parts[1].system_name


(***************************************************************************)
(* C28: every system code under which classify_parts groups a part is a    *)
(* base system code of the customer catalog; a response that assigns a     *)
(* code not in the catalog is rejected, so classify_parts does not return. *)
(***************************************************************************)
CatalogSystemCodes ==
    {Head(customer_catalog[i].vmrs_code) : i \in DOMAIN customer_catalog}

C28_GroupedCodesInCatalog ==
    (refPc = "loaded" /\ cpc = "returned") =>
        /\ DOMAIN grouped \subseteq CatalogSystemCodes
        /\ \A i \in DOMAIN parsed.classified_parts :
              parsed.classified_parts[i].vmrs_system_code.val \in CatalogSystemCodes


(***************************************************************************)
(* C29: after track_progress(n) and any update_progress calls with counts  *)
(* >= 0, total_parts is still n, every stage counter is the sum of the     *)
(* counts passed with its stage name (so a call with any other stage name  *)
(* changes no counter), and by_system[s].completed is the sum of the       *)
(* counts passed with system_code s.                                       *)
(***************************************************************************)
StageCounters == {"classified", "pattern_matched", "web_searched", "mapped",
                  "validated", "failed"}

RECURSIVE CountSum(_, _, _)
\* the counts of the update_progress log whose argument `field` is `value`
CountSum(log, field, value) ==
    IF log = <<>> THEN 0
    ELSE (IF Head(log).op = "update_progress" /\ Head(log)[field] = value
          THEN Head(log).count ELSE 0) + CountSum(Tail(log), field, value)

C29_CountersAreSums ==
    updates # <<>> =>
        /\ progressDict.total_parts = updates[1].total_parts
        /\ \A c \in StageCounters : progressDict[c] = CountSum(updates, "stage", c)
        /\ \A s \in {"13", "17"} :
              CountSum(updates, "system_code", s) =
                 (IF s \in DOMAIN progressDict.by_system
                  THEN progressDict.by_system[s].completed ELSE 0)


(***************************************************************************)
(* C30: validate_json_response returns the JSON value parsed from the      *)
(* whole content or, failing that, from the first fenced block, a json     *)
(* fenced block before a plain one; otherwise it raises ValueError.  It    *)
(* never returns a value that was not parsed from the content.             *)
(***************************************************************************)
\* index of the opener of the first fenced block, a json fence if there is any
Opener(t) ==
    IF \E i \in DOMAIN t : t[i] = JsonFence
    THEN CHOOSE i \in DOMAIN t : t[i] = JsonFence /\ \A j \in 1..(i - 1) : t[j] # JsonFence
    ELSE IF \E i \in DOMAIN t : t[i] = PlainFence
    THEN CHOOSE i \in DOMAIN t : t[i] = PlainFence /\ \A j \in 1..(i - 1) : t[j] # PlainFence
    ELSE 0

\* index of the fence that closes the block opened at index open, or 0
Closer(t, open) ==
    IF \E i \in (open + 1)..Len(t) : t[i] \in Fences
    THEN CHOOSE i \in (open + 1)..Len(t) :
            t[i] \in Fences /\ \A j \in (open + 1)..(i - 1) : t[j] \notin Fences
    ELSE 0

HasBlock(t) == Opener(t) # 0 /\ Closer(t, Opener(t)) # 0
BlockText(t) == SubSeq(t, Opener(t) + 1, Closer(t, Opener(t)) - 1)

C30_ParsedFromContent ==
    called.op = "validate_json_response" =>
        LET content == called.content
        IN  IF json_loads(content).ok
            THEN callOutcome.ok /\ callOutcome.value = json_loads(content).value
            ELSE IF HasBlock(content) /\ json_loads(BlockText(content)).ok
            THEN callOutcome.ok /\ callOutcome.value = json_loads(BlockText(content)).value
            ELSE ~callOutcome.ok /\ callOutcome.error \in {"ValueError", "JSONDecodeError"}

====
